---- MODULE Spec2Model ----
(***************************************************************************)
(* Model of mypy/server/astmerge.py: merging a freshly analysed version of *)
(* a module (AST + symbol table) into the previously analysed version so   *)
(* that the old object identities carry the new content.                   *)
(*                                                                         *)
(* A Python object is modelled by three things:                            *)
(*   - its identity (a node id; the type of the object belongs to the      *)
(*     identity, type(x) is not stored in x.__dict__),                     *)
(*   - the storage cell its __dict__ attribute refers to (dictOf),         *)
(*   - the content of that cell, a mapping from attribute name to value    *)
(*     (cells).                                                            *)
(* Symbol tables are dictionaries from bare name to a symbol table node    *)
(* (kind, node); merge_asts never mutates a table.                         *)
(***************************************************************************)
EXTENDS Integers, Sequences, FiniteSets, TLC

\* Bounds of the exploration.
NumBodies == 2      \* distinct bodies a re-analysed definition can have
MaxCalls == 2       \* calls of merge_asts in one behaviour
MaxWrites == 1      \* attribute writes by the rest of the program after a merge

VARIABLES
    dictOf,           \* node identity -> storage cell (object.__dict__)
    cells,            \* storage cell -> content (attribute name -> value)
    tables,           \* symbol table id -> (name -> [kind, node])
    pc,               \* position of merge_asts: idle / loop / done / failed
    cur_new,          \* the 'new' argument of the current call
    replacement_map,  \* local variable of merge_asts (new identity -> old identity)
    todo,             \* keys of replacement_map the for loop has not visited yet
    pre,              \* the heap when the current call started
    calls,            \* number of calls of merge_asts so far
    justMerged,       \* a successful call has returned and nothing was written since
    afterMerged,      \* the current call started in a justMerged state
    writes            \* number of attribute writes so far

vars == <<dictOf, cells, tables, pc, cur_new, replacement_map, todo, pre,
          calls, justMerged, afterMerged, writes>>

----------------------------------------------------------------------------
(* The universe of objects.                                                *)

\* Old revision: module M, function Fx / class Kx for name x, function Fy
\* for name y, members Bp and Gq of class Kx.  New revision: N, Fx2, Kx2,
\* Fy2, Bp2, Rp2, Kp2, Gq2.  O is another module; Iy, Jq are definitions of
\* that other module and Iy2, Jq2 later versions of them.
OldOwned == {"M", "Fx", "Kx", "Fy", "Bp", "Gq"}
NewOwned == {"N", "Fx2", "Kx2", "Fy2", "Bp2", "Rp2", "Kp2", "Gq2"}
Foreign == {"O", "Iy", "Jq", "Iy2", "Jq2"}
Nodes == OldOwned \cup NewOwned \cup Foreign

\* type(node): a property of the identity, untouched by selfify.
TypeOf(n) ==
    IF n = "None" THEN "NoneType"
    ELSE IF n \in {"M", "N", "O"} THEN "MypyFile"
    ELSE IF n \in {"Kx", "Kx2", "Kp2"} THEN "TypeInfo"
    ELSE "FuncDef"

\* The qualified name each object is created with (a sequence of components).
InitFullname(n) ==
    CASE n \in {"M", "N"} -> <<"m">>
      [] n = "O" -> <<"o">>
      [] n \in {"Fx", "Fx2", "Kx", "Kx2"} -> <<"m", "x">>
      [] n \in {"Fy", "Fy2"} -> <<"m", "y">>
      [] n \in {"Iy", "Iy2"} -> <<"o", "y">>
      [] n \in {"Bp", "Bp2", "Kp2"} -> <<"m", "x", "p">>
      [] n = "Rp2" -> <<"m", "x", "r">>
      [] n \in {"Gq", "Gq2"} -> <<"m", "q">>
      [] n \in {"Jq", "Jq2"} -> <<"o", "q">>

\* The symbol table a MypyFile / TypeInfo object owns (its 'names' attribute).
InitNames(n) ==
    CASE n = "M" -> "T_old"
      [] n = "N" -> "T_new"
      [] n = "O" -> "T_o"
      [] n = "Kx" -> "TK"
      [] n = "Kx2" -> "TK2"
      [] n = "Kp2" -> "TKp2"

HasNames(n) == TypeOf(n) \in {"MypyFile", "TypeInfo"}

EmptyDict == [k \in {} |-> 0]

\* dict.update: the entries of b override those of a.
DictUpdate(a, b) ==
    [k \in (DOMAIN a) \cup (DOMAIN b) |-> IF k \in DOMAIN b THEN b[k] ELSE a[k]]

\* The attributes of a freshly analysed object.  newBody is the body every
\* re-analysed definition has: 1 is the body of the old revision (an unchanged
\* re-analysis); with any other body the old revision also carries an
\* attribute (deco, set by a later pass) that the fresh revision lacks.
InitContent(n, newBody) ==
    LET annotated == newBody # 1
        isNew == n \in NewOwned \cup {"Iy2", "Jq2"}
        base == [fullname |-> InitFullname(n),
                 body |-> IF isNew THEN newBody ELSE 1]
        withNames == IF HasNames(n)
                     THEN DictUpdate(base, [names |-> InitNames(n)])
                     ELSE base
    IN  IF annotated /\ n \in OldOwned
        THEN DictUpdate(withNames, [deco |-> 1])
        ELSE withNames

\* SymbolTableNode(kind, node)
E(k, n) == [kind |-> k, node |-> n]

NoBinding == [nm \in {} |-> E("GDEF", "None")]

Bindings(nm, entries) == {NoBinding} \cup {nm :> e : e \in entries}

OldX == Bindings("x", {E("GDEF", "Fx"), E("GDEF", "Kx"), E("GDEF", "None")})
NewX == Bindings("x", {E("GDEF", "Fx2"), E("GDEF", "Kx2"), E("GDEF", "None")})
OldY == Bindings("y", {E("GDEF", "Fy"), E("GDEF", "Iy")})
NewY == Bindings("y", {E("GDEF", "Fy2"), E("GDEF", "Iy"), E("GDEF", "Iy2")})
OldP == Bindings("p", {E("MDEF", "Bp"), E("MDEF", "None")})
NewP == Bindings("p", {E("MDEF", "Bp2"), E("MDEF", "Rp2"), E("MDEF", "Kp2")})
OldQ == Bindings("q", {E("GDEF", "Gq"), E("GDEF", "Jq"), E("MDEF", "Jq")})
NewQ == Bindings("q", {E("GDEF", "Gq2"), E("MDEF", "Gq2"), E("MDEF", "Jq2")})

----------------------------------------------------------------------------
(* Reading the heap.  A heap is a record [dictOf, cells].                  *)

Heap == [dictOf |-> dictOf, cells |-> cells]

\* The content read through an identity.
Content(h, n) == h.cells[h.dictOf[n]]

\* node.fullname()
Fullname(h, n) == Content(h, n).fullname

\* mypy.util.get_prefix: the name of the module that owns a qualified name.
get_prefix(fullname) == SubSeq(fullname, 1, 1)

----------------------------------------------------------------------------
(* selfify(new, old): lines 108-112.  Called as selfify(dst, src), so the  *)
(* parameter 'new' is the OLD revision's node and 'old' the NEW one.       *)

\* Mutants of selfify.
selfify_alias_only(h, new, old) ==
    [dictOf |-> [h.dictOf EXCEPT ![old] = h.dictOf[new]], cells |-> h.cells]

selfify_without_identity_check(h, new, old) ==
    LET d == h.dictOf[new]
        s == h.dictOf[old]
        cleared == [h.cells EXCEPT ![d] = EmptyDict]
        updated == [cleared EXCEPT ![d] = DictUpdate(cleared[d], cleared[s])]
    IN  [dictOf |-> [h.dictOf EXCEPT ![old] = d], cells |-> updated]

selfify_without_clear(h, new, old) ==
    IF h.dictOf[new] = h.dictOf[old] THEN h
    ELSE LET d == h.dictOf[new]
             s == h.dictOf[old]
             updated == [h.cells EXCEPT ![d] = DictUpdate(h.cells[d], h.cells[s])]
         IN  [dictOf |-> [h.dictOf EXCEPT ![old] = d], cells |-> updated]

selfify_copy(h, new, old) ==
    IF h.dictOf[new] = h.dictOf[old] THEN h
    ELSE LET d == h.dictOf[new]
             s == h.dictOf[old]
         IN  [dictOf |-> h.dictOf, cells |-> [h.cells EXCEPT ![d] = h.cells[s]]]

selfify(h, new, old) ==
    IF h.dictOf[new] = h.dictOf[old] THEN h
    ELSE LET d == h.dictOf[new]
             s == h.dictOf[old]
             cleared == [h.cells EXCEPT ![d] = EmptyDict]
             updated == [cleared EXCEPT ![d] = DictUpdate(cleared[d], cleared[s])]
         IN  [dictOf |-> [h.dictOf EXCEPT ![old] = d], cells |-> updated]

----------------------------------------------------------------------------
(* replacement_map_from_symbol_table(old, new, prefix): lines 80-105.      *)

\* lines 91-92: the old entry is a class member, or its node is present and
\* owned by the module under update.
included_without_prefix(h, node, prefix) ==
    node.kind = "MDEF" \/ node.node # "None"

included_conjunction(h, node, prefix) ==
    /\ node.kind = "MDEF"
    /\ node.node # "None"
    /\ get_prefix(Fullname(h, node.node)) = prefix

included(h, node, prefix) ==
    \/ node.kind = "MDEF"
    \/ /\ node.node # "None"
       /\ get_prefix(Fullname(h, node.node)) = prefix

\* lines 94-97: same type, both nodes present, same qualified name, same kind.
corresponds_without_type(h, node, new_node) ==
    /\ new_node.node # "None"
    /\ node.node # "None"
    /\ Fullname(h, new_node.node) = Fullname(h, node.node)
    /\ new_node.kind = node.kind

corresponds(h, node, new_node) ==
    /\ TypeOf(new_node.node) = TypeOf(node.node)
    /\ new_node.node # "None"
    /\ node.node # "None"
    /\ Fullname(h, new_node.node) = Fullname(h, node.node)
    /\ new_node.kind = node.kind

\* line 103: the prefix handed to the recursive call.
nested_prefix_of_class(h, node, prefix) == Fullname(h, node.node)

nested_prefix(h, node, prefix) == prefix

RECURSIVE replacement_map_from_symbol_table(_, _, _, _)
RECURSIVE ScanNames(_, _, _, _, _, _)

\* The for loop of lines 90-104 over the names of 'old' still to visit,
\* 'replacements' being the dictionary built so far.
ScanNames(h, old, new, prefix, names, replacements) ==
    IF names = {} THEN replacements
    ELSE
      LET name == CHOOSE nm \in names : TRUE
          node == tables[old][name]
          next ==
            IF name \in DOMAIN tables[new] /\ included(h, node, prefix)
            THEN
              LET new_node == tables[new][name]
              IN  IF corresponds(h, node, new_node)
                  THEN
                    LET r1 == DictUpdate(replacements, new_node.node :> node.node)
                    IN  IF /\ TypeOf(node.node) = "TypeInfo"
                           /\ TypeOf(new_node.node) = "TypeInfo"
                        THEN DictUpdate(r1,
                               replacement_map_from_symbol_table(
                                   h,
                                   Content(h, node.node).names,
                                   Content(h, new_node.node).names,
                                   nested_prefix(h, node, prefix)))
                        ELSE r1
                  ELSE replacements
            ELSE replacements
      IN  ScanNames(h, old, new, prefix, names \ {name}, next)

replacement_map_from_symbol_table(h, old, new, prefix) ==
    ScanNames(h, old, new, prefix, DOMAIN tables[old], EmptyDict)

----------------------------------------------------------------------------
(* merge_asts(old, old_symbols, new, new_symbols): lines 56-77.            *)

merge_asts_precondition_off(h, old, new) == TRUE

\* line 68: assert new.fullname() == old.fullname()
merge_asts_precondition(h, old, new) == Fullname(h, new) = Fullname(h, old)

merge_asts_map_without_module(h, old, old_symbols, new, new_symbols) ==
    replacement_map_from_symbol_table(h, old_symbols, new_symbols,
                                      Fullname(h, old))

\* lines 71-74: the replacement map with the module pair added.
merge_asts_map(h, old, old_symbols, new, new_symbols) ==
    DictUpdate(
        replacement_map_from_symbol_table(h, old_symbols, new_symbols,
                                          Fullname(h, old)),
        new :> old)

\* The symbol table a caller passes with a module node.
SymbolsArg(n) == InitNames(n)

----------------------------------------------------------------------------

Init ==
    \E ox \in OldX, nx \in NewX, oy \in OldY, ny \in NewY,
       op \in OldP, np \in NewP, oq \in OldQ, nq \in NewQ,
       newBody \in 1..NumBodies :
       LET bothClasses == /\ ox # NoBinding /\ ox["x"].node = "Kx"
                          /\ nx # NoBinding /\ nx["x"].node = "Kx2"
       IN
       \* The member tables are enumerated only where the builder can reach
       \* them; otherwise each class has its one method p.
       /\ ~bothClasses => /\ op = ("p" :> E("MDEF", "Bp"))
                          /\ np = ("p" :> E("MDEF", "Bp2"))
                          /\ oq = NoBinding
                          /\ nq = NoBinding
       /\ tables = [T_old |-> DictUpdate(ox, oy),
                    T_new |-> DictUpdate(nx, ny),
                    T_o |-> NoBinding,
                    TK |-> DictUpdate(op, oq),
                    TK2 |-> DictUpdate(np, nq),
                    TKp2 |-> NoBinding]
       /\ dictOf = [n \in Nodes |-> n]
       /\ cells = [n \in Nodes |-> InitContent(n, newBody)]
       /\ pc = "idle"
       /\ cur_new = "N"
       /\ replacement_map = EmptyDict
       /\ todo = {}
       /\ pre = [dictOf |-> [n \in Nodes |-> n],
                 cells |-> [n \in Nodes |-> InitContent(n, newBody)]]
       /\ calls = 0
       /\ justMerged = FALSE
       /\ afterMerged = FALSE
       /\ writes = 0

\* merge_asts(M, T_old, new, new.names) is entered: the assertion of line 68,
\* then the replacement map of lines 71-74.  The exploration puts the writes
\* of the rest of the program after the last merge.
Call(new) ==
    /\ pc \in {"idle", "done", "failed"}
    /\ calls < MaxCalls
    /\ writes = 0
    /\ calls' = calls + 1
    /\ cur_new' = new
    /\ pre' = Heap
    /\ afterMerged' = justMerged
    /\ IF merge_asts_precondition(Heap, "M", new)
       THEN /\ replacement_map' =
                  merge_asts_map(Heap, "M", "T_old", new, SymbolsArg(new))
            /\ todo' = DOMAIN replacement_map'
            /\ pc' = "loop"
       ELSE /\ replacement_map' = EmptyDict
            /\ todo' = {}
            /\ pc' = "failed"
    /\ UNCHANGED <<dictOf, cells, tables, justMerged, writes>>

\* One iteration of the for loop of lines 76-77; the dictionary's iteration
\* order is not fixed by the code, so any remaining key may come next.
SelfifyStep ==
    /\ pc = "loop"
    /\ \E src \in todo :
         LET h == selfify(Heap, replacement_map[src], src)
         IN  /\ dictOf' = h.dictOf
             /\ cells' = h.cells
             /\ todo' = todo \ {src}
    /\ pc' = IF todo' = {} THEN "done" ELSE "loop"
    /\ justMerged' = (todo' = {})
    /\ UNCHANGED <<tables, cur_new, replacement_map, pre, calls, afterMerged, writes>>

\* After a merge the rest of the program writes an attribute through a
\* reference it holds to a merged node (old or new identity); the value is
\* one no analysis produced.
WriteBody == NumBodies + 1

Write ==
    /\ pc = "done"
    /\ writes < MaxWrites
    /\ \E n \in (DOMAIN replacement_map) \cup {replacement_map[k] : k \in DOMAIN replacement_map} :
         cells' = [cells EXCEPT ![dictOf[n]].body = WriteBody]
    /\ writes' = writes + 1
    /\ justMerged' = FALSE
    /\ UNCHANGED <<dictOf, tables, pc, cur_new, replacement_map, todo, pre,
                   calls, afterMerged>>

Next ==
    \/ \E new \in {"N", "O"} : Call(new)
    \/ SelfifyStep
    \/ Write

Spec == Init /\ [][Next]_vars


----------------------------------------------------------------------------
(* Vocabulary of the properties.                                           *)

\* merge_asts has returned and nothing has been written since.
Returned == pc = "done" /\ justMerged

\* The module prefix of the current call: old.fullname() when it started.
ModulePrefix == Fullname(pre, "M")

\* The inclusion guard as the specification words it.
PassesGuard(e) ==
    \/ e.kind = "MDEF"
    \/ e.node # "None" /\ SubSeq(Fullname(pre, e.node), 1, 1) = ModulePrefix

\* The correspondence test as the specification words it.
Matches(eo, en) ==
    /\ eo.node # "None" /\ en.node # "None"
    /\ TypeOf(eo.node) = TypeOf(en.node)
    /\ Fullname(pre, eo.node) = Fullname(pre, en.node)
    /\ eo.kind = en.kind

\* The replacement map holds the pair new -> old.
HasPair(new, old) ==
    new \in DOMAIN replacement_map /\ replacement_map[new] = old

BothBound(to, tn) == (DOMAIN tables[to]) \cap (DOMAIN tables[tn])

\* The class for name x is matched, so its member tables are compared.
ClassMatched ==
    /\ "x" \in BothBound("T_old", "T_new")
    /\ tables["T_old"]["x"].node = "Kx"
    /\ tables["T_new"]["x"].node = "Kx2"
    /\ HasPair("Kx2", "Kx")

\* The member tables the builder compares for the matched class.
OldMembers == Content(pre, "Kx").names
NewMembers == Content(pre, "Kx2").names

\* The pairs of tables in which a name can be looked up on both sides.
TablePairs ==
    {<<"T_old", "T_new">>, <<Content(pre, "Kx").names, Content(pre, "Kx2").names>>}

\* Some pair of the current map joined two distinct storage cells.
SomeTransplant ==
    \E k \in DOMAIN replacement_map :
        pre.dictOf[k] # pre.dictOf[replacement_map[k]]

----------------------------------------------------------------------------
(* C1 *)

\* C1 as stated: for every name bound in both module tables whose entries
\* satisfy the correspondence test, after merge_asts the old node keeps its
\* storage and its content is the content the new node had before the merge.
C1_Original ==
    Returned =>
      \A name \in BothBound("T_old", "T_new") :
        LET eo == tables["T_old"][name]
            en == tables["T_new"][name]
        IN  Matches(eo, en) =>
              /\ dictOf[eo.node] = pre.dictOf[eo.node]
              /\ Content(Heap, eo.node) = Content(pre, en.node)

\* C1 amended: the same for every such name whose old entry also passes the
\* inclusion guard (a class-member entry, or a node owned by the module).
C1_IdentityPreservation ==
    Returned =>
      \A name \in BothBound("T_old", "T_new") :
        LET eo == tables["T_old"][name]
            en == tables["T_new"][name]
        IN  Matches(eo, en) /\ PassesGuard(eo) =>
              /\ dictOf[eo.node] = pre.dictOf[eo.node]
              /\ Content(Heap, eo.node) = Content(pre, en.node)

C1_Witness ==
    /\ Returned
    /\ \E name \in BothBound("T_old", "T_new") :
         LET eo == tables["T_old"][name]
             en == tables["T_new"][name]
         IN  /\ Matches(eo, en) /\ PassesGuard(eo)
             /\ Content(pre, eo.node) # Content(pre, en.node)
             /\ Content(Heap, eo.node) = Content(pre, en.node)

----------------------------------------------------------------------------
(* C2 *)

\* C2: when the nodes bound to a name in the old and in the new table have
\* different types, the map has no pair for them, and after merge_asts the old
\* node holds its pre-merge content in its own storage while the new node
\* keeps separate storage with its own content.
C2_KindChangeIsolation ==
    pc \in {"loop", "done"} =>
      \A tp \in TablePairs :
        \A name \in BothBound(tp[1], tp[2]) :
          LET eo == tables[tp[1]][name]
              en == tables[tp[2]][name]
          IN  (/\ eo.node # "None" /\ en.node # "None"
               /\ TypeOf(eo.node) # TypeOf(en.node)) =>
                /\ ~HasPair(en.node, eo.node)
                /\ en.node \notin DOMAIN replacement_map
                /\ Returned =>
                     /\ dictOf[eo.node] = pre.dictOf[eo.node]
                     /\ Content(Heap, eo.node) = Content(pre, eo.node)
                     /\ dictOf[en.node] # dictOf[eo.node]
                     /\ Content(Heap, en.node) = Content(pre, en.node)

C2_Witness ==
    /\ Returned
    /\ SomeTransplant
    /\ \E tp \in TablePairs :
         \E name \in BothBound(tp[1], tp[2]) :
           LET eo == tables[tp[1]][name]
               en == tables[tp[2]][name]
           IN  /\ eo.node # "None" /\ en.node # "None"
               /\ TypeOf(eo.node) # TypeOf(en.node)
               /\ Fullname(pre, eo.node) = Fullname(pre, en.node)
               /\ Content(Heap, eo.node) # Content(Heap, en.node)

----------------------------------------------------------------------------
(* C3 *)

\* C3: a call whose old and new module have different qualified names fails
\* before the replacement map exists and leaves the heap as it was; a call
\* whose module names are equal never fails.
C3_FatalPrecondition ==
    /\ pc = "failed" =>
         /\ Fullname(pre, cur_new) # Fullname(pre, "M")
         /\ replacement_map = EmptyDict
         /\ Heap = pre
    /\ pc \in {"loop", "done"} => Fullname(pre, cur_new) = Fullname(pre, "M")

C3_Witness ==
    /\ pc = "failed"
    /\ cur_new = "O"
    /\ DOMAIN tables["T_old"] # {}

----------------------------------------------------------------------------
(* C4 *)

RECURSIVE NodeView(_, _)
RECURSIVE TableView(_, _)

\* What can be observed of a node without looking at identities: its type,
\* its attributes and, through its symbol table, the same of its members.
NodeView(h, n) ==
    IF n = "None" THEN [none |-> TRUE]
    ELSE LET c == Content(h, n)
         IN  [type |-> TypeOf(n),
              attrs |-> [k \in (DOMAIN c) \ {"names"} |-> c[k]],
              members |-> IF "names" \in DOMAIN c
                          THEN TableView(h, c.names)
                          ELSE EmptyDict]

TableView(h, t) ==
    [nm \in DOMAIN tables[t] |->
        [kind |-> tables[t][nm].kind, node |-> NodeView(h, tables[t][nm].node)]]

\* A module revision as the arguments of merge_asts give it.
SnapshotView(h, module, symbols) ==
    LET c == Content(h, module)
    IN  [attrs |-> [k \in (DOMAIN c) \ {"names"} |-> c[k]],
         members |-> TableView(h, symbols)]

\* The new revision is an unchanged re-analysis of the old one.
Unchanged == SnapshotView(pre, "M", "T_old") = SnapshotView(pre, "N", "T_new")

OldIdentities == OldOwned \cup {"Iy", "Jq"}

\* C4 as stated: after a no-op update every old identity shows the content
\* it showed before, and the map has a pair for every name of the module
\* table.
C4_Original ==
    Returned /\ Unchanged =>
      /\ \A o \in OldIdentities : NodeView(Heap, o) = NodeView(pre, o)
      /\ \A name \in DOMAIN tables["T_old"] :
           /\ name \in DOMAIN tables["T_new"]
           /\ HasPair(tables["T_new"][name].node, tables["T_old"][name].node)

\* C4 amended: the map has a pair for every name of the module table whose
\* entry passes the inclusion guard and whose node is present.
C4_NoOpUpdate ==
    Returned /\ Unchanged =>
      /\ \A o \in OldIdentities : NodeView(Heap, o) = NodeView(pre, o)
      /\ \A name \in DOMAIN tables["T_old"] :
           /\ name \in DOMAIN tables["T_new"]
           /\ (PassesGuard(tables["T_old"][name])
               /\ tables["T_old"][name].node # "None") =>
                HasPair(tables["T_new"][name].node, tables["T_old"][name].node)

C4_Witness ==
    /\ Returned /\ Unchanged
    /\ ~afterMerged
    /\ SomeTransplant
    /\ DOMAIN tables["T_old"] = {"x", "y"}
    /\ HasPair(tables["T_new"]["x"].node, tables["T_old"]["x"].node)
    /\ ~PassesGuard(tables["T_old"]["y"])

----------------------------------------------------------------------------
(* C5 *)

\* C5: a second call with the same arguments right after a successful call
\* changes nothing: at every point of the second call each identity has the
\* storage and each storage cell the content it had when that call started.
C5_Idempotence ==
    (afterMerged /\ cur_new = "N" /\ (pc = "loop" \/ Returned)) => Heap = pre

C5_Witness ==
    /\ afterMerged /\ cur_new = "N" /\ Returned
    /\ Cardinality(DOMAIN replacement_map) >= 3
    /\ \E k \in DOMAIN replacement_map : k # "N" /\ dictOf[k] # k

----------------------------------------------------------------------------
(* C6 *)

\* The pair the for loop visits in this step.
StepSrc == CHOOSE s \in todo : s \notin todo'
StepDst == replacement_map[StepSrc]

\* C6: a transplant step on nodes with distinct storage leaves the old
\* identity on its own cell, makes that cell hold exactly the content the
\* new node had, and makes the new identity alias that cell; a step on nodes
\* that already share a cell changes nothing; and a later write through
\* either identity of a merged pair is read through the other.
C6_TransplantPostcondition ==
    [][ /\ (pc = "loop" /\ todo' # todo) =>
             IF dictOf[StepSrc] # dictOf[StepDst]
             THEN /\ dictOf'[StepDst] = dictOf[StepDst]
                  /\ cells'[dictOf[StepDst]] = cells[dictOf[StepSrc]]
                  /\ dictOf'[StepSrc] = dictOf[StepDst]
                  /\ \A n \in Nodes \ {StepSrc} : dictOf'[n] = dictOf[n]
                  /\ \A c \in Nodes \ {dictOf[StepDst]} : cells'[c] = cells[c]
             ELSE dictOf' = dictOf /\ cells' = cells
        /\ (pc = "done" /\ writes' # writes) =>
             \A k \in DOMAIN replacement_map :
                cells'[dictOf'[k]] = cells'[dictOf'[replacement_map[k]]]
      ]_vars

C6_Witness ==
    /\ pc = "done"
    /\ writes = 1
    /\ \E k \in DOMAIN replacement_map :
         /\ pre.dictOf[k] # pre.dictOf[replacement_map[k]]
         /\ "deco" \in DOMAIN Content(pre, replacement_map[k])
         /\ "deco" \notin DOMAIN Content(pre, k)
         /\ Content(Heap, k).body = WriteBody
         /\ Content(Heap, replacement_map[k]).body = WriteBody

----------------------------------------------------------------------------
(* C7 *)

\* The state every pair of the map asks for, written without any order:
\* each new identity is on the cell of its old identity, that cell holds the
\* new node's content, everything else is as before.
FinalDictOf ==
    [n \in Nodes |->
        IF n \in DOMAIN replacement_map
        THEN pre.dictOf[replacement_map[n]]
        ELSE pre.dictOf[n]]

FinalCells ==
    [c \in Nodes |->
        LET into == {k \in DOMAIN replacement_map :
                        /\ pre.dictOf[replacement_map[k]] = c
                        /\ pre.dictOf[k] # c}
        IN  IF into = {} THEN pre.cells[c]
            ELSE pre.cells[pre.dictOf[CHOOSE k \in into : TRUE]]]

\* C7: whatever order the loop visits the pairs in, merge_asts ends in the
\* same state, the one determined by the map alone.
C7_OrderIndependence ==
    Returned => dictOf = FinalDictOf /\ cells = FinalCells

C7_Witness ==
    /\ Returned
    /\ Cardinality({k \in DOMAIN replacement_map :
                       pre.dictOf[k] # pre.dictOf[replacement_map[k]]}) >= 4

----------------------------------------------------------------------------
(* C8 *)

\* The module table reached through the old module identity.
MergedTable == tables[Content(Heap, "M").names]

\* C8: a name bound in only one of the two module tables gets no pair; after
\* merge_asts the table reached through the old module binds an added name
\* to its new identity, which keeps its own storage, and does not bind a
\* removed name nor reach the removed node.
C8_AddedAndRemoved ==
    Returned =>
      /\ \A name \in (DOMAIN tables["T_old"]) \ (DOMAIN tables["T_new"]) :
           LET o == tables["T_old"][name].node
           IN  /\ name \notin DOMAIN MergedTable
               /\ o # "None" =>
                    /\ \A k \in DOMAIN replacement_map : replacement_map[k] # o
                    /\ \A nm \in DOMAIN MergedTable : MergedTable[nm].node # o
                    /\ Content(Heap, o) = Content(pre, o)
      /\ \A name \in (DOMAIN tables["T_new"]) \ (DOMAIN tables["T_old"]) :
           LET n == tables["T_new"][name].node
           IN  /\ name \in DOMAIN MergedTable
               /\ MergedTable[name].node = n
               /\ n # "None" =>
                    /\ n \notin DOMAIN replacement_map
                    /\ dictOf[n] = pre.dictOf[n]
                    /\ Content(Heap, n) = Content(pre, n)

C8_Witness ==
    /\ Returned
    /\ ~afterMerged
    /\ "x" \in DOMAIN tables["T_old"] /\ "x" \notin DOMAIN tables["T_new"]
    /\ tables["T_old"]["x"].node = "Kx"
    /\ "y" \in DOMAIN tables["T_new"] /\ "y" \notin DOMAIN tables["T_old"]
    /\ tables["T_new"]["y"].node = "Fy2"
    /\ "y" \in DOMAIN MergedTable

----------------------------------------------------------------------------
(* C9 *)

\* C9: in every pair of tables the builder compares, a name has a pair only
\* if its old entry passes the inclusion guard taken with the module prefix;
\* an entry that fails it is neither mapped nor transplanted although its two
\* entries correspond; and a non-member entry of a class table whose node is
\* owned by the module is mapped when its entries correspond, the prefix
\* being the module's at that level too.
C9_InclusionGuard ==
    pc \in {"loop", "done"} =>
      /\ \A name \in BothBound("T_old", "T_new") :
           LET eo == tables["T_old"][name]
               en == tables["T_new"][name]
           IN  ~PassesGuard(eo) =>
                 /\ en.node \notin DOMAIN replacement_map \/ en.node = eo.node
                 /\ ~HasPair(en.node, eo.node)
                 /\ (Returned /\ eo.node # "None") =>
                      /\ dictOf[eo.node] = pre.dictOf[eo.node]
                      /\ Content(Heap, eo.node) = Content(pre, eo.node)
      /\ ClassMatched =>
           \A name \in BothBound(OldMembers, NewMembers) :
             LET eo == tables[OldMembers][name]
                 en == tables[NewMembers][name]
             IN  /\ ~PassesGuard(eo) =>
                       /\ ~HasPair(en.node, eo.node)
                       /\ (Returned /\ eo.node # "None") =>
                            Content(Heap, eo.node) = Content(pre, eo.node)
                 /\ (eo.kind # "MDEF" /\ PassesGuard(eo) /\ Matches(eo, en)) =>
                       HasPair(en.node, eo.node)

C9_Witness ==
    /\ Returned
    /\ ~afterMerged
    /\ "y" \in BothBound("T_old", "T_new")
    /\ tables["T_old"]["y"].node = "Iy"
    /\ tables["T_new"]["y"].node = "Iy2"
    /\ Matches(tables["T_old"]["y"], tables["T_new"]["y"])
    /\ Content(Heap, "Iy") # Content(Heap, "Iy2")
    /\ ClassMatched
    /\ HasPair("Gq2", "Gq")

----------------------------------------------------------------------------
(* C10 *)

\* C10: in a matched class each member name is mapped exactly when its own
\* two entries pass the inclusion guard and the correspondence test, and
\* after merge_asts its old identity holds the new member's content when it
\* is mapped and its own pre-merge content when it is not, whatever happens
\* to the other members.
C10_IndependentMembers ==
    (pc \in {"loop", "done"} /\ ClassMatched) =>
      \A name \in DOMAIN tables[OldMembers] :
        LET eo == tables[OldMembers][name]
            both == name \in DOMAIN tables[NewMembers]
            mapped == /\ both
                      /\ PassesGuard(eo)
                      /\ Matches(eo, tables[NewMembers][name])
        IN  /\ both => (HasPair(tables[NewMembers][name].node, eo.node) <=> mapped)
            /\ (~mapped /\ eo.node # "None") =>
                  \A k \in DOMAIN replacement_map :
                     replacement_map[k] = eo.node => k = eo.node
            /\ (Returned /\ eo.node # "None") =>
                  Content(Heap, eo.node) =
                     IF mapped THEN Content(pre, tables[NewMembers][name].node)
                     ELSE Content(pre, eo.node)

C10_Witness ==
    /\ Returned
    /\ ~afterMerged
    /\ ClassMatched
    /\ DOMAIN tables[OldMembers] = {"p", "q"}
    /\ HasPair("Bp2", "Bp")
    /\ Content(pre, "Bp") # Content(pre, "Bp2")
    /\ "q" \in DOMAIN tables[NewMembers]
    /\ ~HasPair(tables[NewMembers]["q"].node, tables[OldMembers]["q"].node)

====
